---- MODULE Spec2Model ----
(***************************************************************************)
(* A model of shotty (src/shotty/shotty.py): a click command line that     *)
(* selects EC2 instances and stops, starts, reboots or snapshots them.     *)
(*                                                                         *)
(* The remote inventory (the boto3 `ec2` resource) is the variables        *)
(* state, tags and snapshots.  One invocation of the command line is the   *)
(* variables pc, command, instances, idx, vidx, last_state and exc.  The   *)
(* history variables log and out record, in order, every request sent to   *)
(* the inventory and every line printed during the invocation; before is   *)
(* the inventory as it was when the command began.                         *)
(***************************************************************************)
EXTENDS Integers, Sequences, FiniteSets, TLC

VARIABLES
    state,       \* remote: instance id -> i.state['Name']
    tags,        \* remote: instance id -> value of the tag Project, or None
    snapshots,   \* remote: volume id -> v.snapshots.all(), in the service's order
    pc,          \* position of the running command
    command,     \* the invocation: [name, project, instance, force]
    instances,   \* local `instances` of the handler: the selection
    idx,         \* position of `for i in instances`
    vidx,        \* position of `for v in i.volumes.all()`
    last_state,  \* local `last_state` of create_snapshots
    exc,         \* the exception that ended the invocation, or None
    log,         \* history: requests sent to the inventory in this invocation
    out,         \* history: lines printed in this invocation
    before       \* history: the remote state and snapshots when the command began

vars == <<state, tags, snapshots, pc, command, instances, idx, vidx,
          last_state, exc, log, out, before>>

remote == <<state, tags, snapshots>>

(***************************************************************************)
(* Bounds of the model.                                                    *)
(***************************************************************************)
NumInstances == 2   \* instances in the inventory
NumVolumes == 3     \* volumes in the inventory
MaxSnaps == 1       \* snapshots in the inventory before the invocation
MaxListed == 3      \* snapshots of the one volume that has a history

(***************************************************************************)
(* Values.                                                                 *)
(***************************************************************************)
None == "<None>"                    \* python None: an option that was not given

Truthy(x) == x # None /\ x # ""     \* python truth value of an option

InstanceId(n) == "i-" \o ToString(n)

VolumeId(n) == "vol-" \o ToString(n)

AllInstances == [n \in 1..NumInstances |-> InstanceId(n)]

InstanceIds == {AllInstances[n] : n \in 1..NumInstances}

VolumeIds == {VolumeId(n) : n \in 1..NumVolumes}

Owner(n) == InstanceId(((n - 1) % NumInstances) + 1)

RuntimeStates == {"running", "stopped", "pending"}

SnapshotStates == {"pending", "completed", "error"}

\* the values of the tag Project in the inventory
ProjectTags == {None, "p1"}

\* the option values a command line can carry
ProjectArgs == {None, "", "p1", "p2"}

InstanceArgs == {None, "", InstanceId(NumInstances + 1)} \cup InstanceIds

MutatingCommands == {"snapshot", "stop", "start", "reboot"}

Request(op, id, ok) == [op |-> op, id |-> id, ok |-> ok]

Line(text, id) == [text |-> text, id |-> id]

RECURSIVE SeqsUpTo(_, _)
SeqsUpTo(S, n) ==
    IF n = 0 THEN {<<>>}
    ELSE LET shorter == SeqsUpTo(S, n - 1)
         IN  shorter \cup {Append(s, x) : s \in shorter, x \in S}

\* the listings of volumes 1..n that hold at most `budget` snapshots together
RECURSIVE Listings(_, _)
Listings(n, budget) ==
    IF n = 0 THEN {<<>>}
    ELSE UNION {{Append(rest, s) : rest \in Listings(n - 1, budget - Len(s))} :
                s \in SeqsUpTo(SnapshotStates, budget)}

\* the inventories in which one volume holds up to n snapshots, the others none
Histories(n) ==
    {[v \in VolumeIds |-> IF v = w THEN listing ELSE <<>>] :
        w \in VolumeIds, listing \in SeqsUpTo(SnapshotStates, n)}

(***************************************************************************)
(* Helpers of the source.                                                  *)
(***************************************************************************)
\* the volumes attached to each instance, in the service's order
Attached ==
    [i \in InstanceIds |->
        LET all == [n \in 1..NumVolumes |-> n]
            mine == SelectSeq(all, LAMBDA n : Owner(n) = i)
        IN  [k \in 1..Len(mine) |-> VolumeId(mine[k])]]

\* i.volumes.all()
VolumesOf(i) == Attached[i]

\* ec2.instances.filter(Filters=[{'Name': 'instance-id', 'Values': [instance]}])
FilterById(instance) == SelectSeq(AllInstances, LAMBDA i : i = instance)

\* ec2.instances.filter(Filters=[{'Name': 'tag:Project', 'Values': [project]}])
FilterByProject(project) == SelectSeq(AllInstances, LAMBDA i : tags[i] = project)

\* filter_instances with the two tests in the other order
filter_instances_ProjectFirst(project, instance) ==
    IF Truthy(project) THEN FilterByProject(project)
    ELSE IF Truthy(instance) THEN FilterById(instance)
    ELSE AllInstances

filter_instances(project, instance) ==
    IF Truthy(instance) THEN FilterById(instance)
    ELSE IF Truthy(project) THEN FilterByProject(project)
    ELSE AllInstances

\* has_pending_snapshot looking at the snapshot the service lists last
has_pending_snapshot_Last(volume) ==
    LET snaps == snapshots[volume]
    IN  snaps # <<>> /\ snaps[Len(snaps)] = "pending"

\* has_pending_snapshot looking at every snapshot of the volume
has_pending_snapshot_Any(volume) ==
    \E k \in 1..Len(snapshots[volume]) : snapshots[volume][k] = "pending"

has_pending_snapshot(volume) ==
    LET snaps == snapshots[volume]
    IN  snaps # <<>> /\ snaps[1] = "pending"

\* `if not project and not force: raise Exception(...)`
GateRaises(project, force) == ~Truthy(project) /\ ~force

(***************************************************************************)
(* The state before a command runs.  Init is an inventory without          *)
(* snapshots; InitSnapshot is an inventory whose instances all carry the   *)
(* tag Project=p1 and whose volumes hold at most MaxSnaps snapshots.       *)
(***************************************************************************)
InitProgram ==
    /\ pc = "idle"
    /\ command = [name |-> None, project |-> None, instance |-> None, force |-> FALSE]
    /\ instances = <<>>
    /\ idx = 0
    /\ vidx = 0
    /\ last_state = None
    /\ exc = None
    /\ log = <<>>
    /\ out = <<>>
    /\ before = [state |-> state, snapshots |-> snapshots]

Init ==
    /\ state \in [InstanceIds -> RuntimeStates]
    /\ tags \in [InstanceIds -> ProjectTags]
    /\ snapshots = [v \in VolumeIds |-> <<>>]
    /\ InitProgram

InitSnapshot ==
    /\ state \in [InstanceIds -> RuntimeStates]
    /\ tags = [i \in InstanceIds |-> "p1"]
    /\ \E listing \in Listings(NumVolumes, MaxSnaps) :
          snapshots = [v \in VolumeIds |->
                         listing[CHOOSE n \in 1..NumVolumes : VolumeId(n) = v]]
    /\ InitProgram

\* an inventory of running instances for two invocations in a row; at most
\* one volume has a snapshot already
InitRerun ==
    /\ state = [i \in InstanceIds |-> "running"]
    /\ tags = [i \in InstanceIds |-> "p1"]
    /\ \E listing \in Listings(NumVolumes, 1) :
          snapshots = [v \in VolumeIds |->
                         listing[CHOOSE n \in 1..NumVolumes : VolumeId(n) = v]]
    /\ InitProgram

\* an inventory in which one volume has a history; the first instance runs
InitGuard ==
    /\ state = [i \in InstanceIds |-> IF i = InstanceId(1) THEN "running" ELSE "stopped"]
    /\ tags = [i \in InstanceIds |-> "p1"]
    /\ snapshots \in Histories(MaxListed)
    /\ InitProgram

\* an inventory of running instances in which one volume has a history
InitList ==
    /\ state = [i \in InstanceIds |-> "running"]
    /\ tags \in [InstanceIds -> ProjectTags]
    /\ snapshots \in Histories(MaxListed)
    /\ InitProgram

(***************************************************************************)
(* Entry of a mutating command: the gate, then the selection.  The boto3   *)
(* collection is lazy; its query is sent when the loop that follows asks   *)
(* for the first instance, and nothing happens in between.                 *)
(***************************************************************************)
\* Enter with the selection queried before the gate is tested
Enter_SelectsFirst(name, project, force, instance) ==
    /\ pc = "idle"
    /\ command' = [name |-> name, project |-> project, instance |-> instance,
                   force |-> force]
    /\ instances' = filter_instances(project, instance)
    /\ log' = Append(log, Request("listInstances", None, TRUE))
    /\ IF GateRaises(project, force)
       THEN /\ exc' = "Exception"
            /\ pc' = "crashed"
            /\ UNCHANGED idx
       ELSE /\ idx' = 1
            /\ pc' = "loop"
            /\ exc' = None
    /\ before' = [state |-> state, snapshots |-> snapshots]
    /\ UNCHANGED <<remote, vidx, last_state, out>>

\* Enter taking the whole inventory whatever the filter says
Enter_SelectsAll(name, project, force, instance) ==
    /\ pc = "idle"
    /\ command' = [name |-> name, project |-> project, instance |-> instance,
                   force |-> force]
    /\ IF GateRaises(project, force)
       THEN /\ exc' = "Exception"
            /\ pc' = "crashed"
            /\ UNCHANGED <<instances, idx, log>>
       ELSE /\ instances' = AllInstances
            /\ log' = Append(log, Request("listInstances", None, TRUE))
            /\ idx' = 1
            /\ pc' = "loop"
            /\ exc' = None
    /\ before' = [state |-> state, snapshots |-> snapshots]
    /\ UNCHANGED <<remote, vidx, last_state, out>>

Enter(name, project, force, instance) ==
    /\ pc = "idle"
    /\ command' = [name |-> name, project |-> project, instance |-> instance,
                   force |-> force]
    /\ IF GateRaises(project, force)
       THEN /\ exc' = "Exception"
            /\ pc' = "crashed"
            /\ UNCHANGED <<instances, idx, log>>
       ELSE /\ instances' = filter_instances(project, instance)
            /\ log' = Append(log, Request("listInstances", None, TRUE))
            /\ idx' = 1
            /\ pc' = "loop"
            /\ exc' = None
    /\ before' = [state |-> state, snapshots |-> snapshots]
    /\ UNCHANGED <<remote, vidx, last_state, out>>

create_snapshots ==
    \E project \in ProjectArgs, instance \in InstanceArgs, force \in BOOLEAN :
        Enter("snapshot", project, force, instance)

stop_instances ==
    \E project \in ProjectArgs, instance \in InstanceArgs, force \in BOOLEAN :
        Enter("stop", project, force, instance)

start_instances ==
    \E project \in ProjectArgs, instance \in InstanceArgs, force \in BOOLEAN :
        Enter("start", project, force, instance)

reboot_instances ==
    \E project \in ProjectArgs, instance \in InstanceArgs, force \in BOOLEAN :
        Enter("reboot", project, force, instance)

\* create_snapshots on the command lines InitSnapshot is explored with
create_snapshots_p1 ==
    \E args \in {<<None, None, FALSE>>, <<"p1", None, FALSE>>,
                  <<None, InstanceId(1), TRUE>>} :
        Enter("snapshot", args[1], args[3], args[2])

(***************************************************************************)
(* create_snapshots: the loop over the selection.                          *)
(***************************************************************************)
InSnapshot(at) == command.name = "snapshot" /\ pc = at

Current == instances[idx]

\* the remote effect of a request the service accepted
AfterStop(s) == IF s = "stopped" THEN "stopped" ELSE "stopping"

AfterStart(s) == IF s = "running" THEN "running" ELSE "pending"

Raise(e) ==
    /\ exc' = e
    /\ pc' = "crashed"

\* the loop is exhausted: print("Job's done!"); return
SnapshotDone ==
    /\ InSnapshot("loop")
    /\ idx > Len(instances)
    /\ out' = Append(out, Line("Job's done!", None))
    /\ pc' = "done"
    /\ UNCHANGED <<before, remote, command, instances, idx, vidx, last_state, exc, log>>

\* SnapshotStop going on to the volumes without i.wait_until_stopped()
SnapshotStop_NoWait ==
    /\ InSnapshot("loop")
    /\ idx <= Len(instances)
    /\ last_state' = state[Current]
    /\ out' = Append(out, Line("Stopping", Current))
    /\ \E ok \in BOOLEAN :
        /\ IF ok
           THEN /\ state' = [state EXCEPT ![Current] = AfterStop(@)]
                /\ log' = log \o <<Request("stop", Current, TRUE),
                                   Request("listVolumes", Current, TRUE)>>
                /\ vidx' = 1
                /\ pc' = "volumes"
                /\ UNCHANGED exc
           ELSE /\ log' = Append(log, Request("stop", Current, FALSE))
                /\ Raise("ClientError")
                /\ UNCHANGED <<state, vidx>>
    /\ UNCHANGED <<before, tags, snapshots, command, instances, idx>>

\* last_state = i.state['Name']; print("Stopping ..."); i.stop()
SnapshotStop ==
    /\ InSnapshot("loop")
    /\ idx <= Len(instances)
    /\ last_state' = state[Current]
    /\ out' = Append(out, Line("Stopping", Current))
    /\ \E ok \in BOOLEAN :
        /\ log' = Append(log, Request("stop", Current, ok))
        /\ IF ok
           THEN /\ state' = [state EXCEPT ![Current] = AfterStop(@)]
                /\ pc' = "wait_until_stopped"
                /\ UNCHANGED exc
           ELSE /\ Raise("ClientError")
                /\ UNCHANGED state
    /\ UNCHANGED <<before, tags, snapshots, command, instances, idx, vidx>>

\* i.wait_until_stopped(); then `for v in i.volumes.all()` starts
SnapshotWaitStopped ==
    /\ InSnapshot("wait_until_stopped")
    /\ \E ok \in BOOLEAN :
        /\ IF ok
           THEN /\ state' = [state EXCEPT ![Current] = "stopped"]
                /\ log' = log \o <<Request("wait_until_stopped", Current, TRUE),
                                   Request("listVolumes", Current, TRUE)>>
                /\ vidx' = 1
                /\ pc' = "volumes"
                /\ UNCHANGED exc
           ELSE /\ log' = Append(log, Request("wait_until_stopped", Current, FALSE))
                /\ Raise("WaiterError")
                /\ UNCHANGED <<state, vidx>>
    /\ UNCHANGED <<before, tags, snapshots, command, instances, idx, last_state, out>>

\* where the service lists a snapshot it has just created
Created(snaps) == {<<"pending">> \o snaps, snaps \o <<"pending">>}

\* SnapshotVolume without the test of has_pending_snapshot
SnapshotVolume_NoGuard ==
    /\ InSnapshot("volumes")
    /\ vidx <= Len(VolumesOf(Current))
    /\ LET v == VolumesOf(Current)[vidx]
       IN  \E ok \in BOOLEAN :
            /\ log' = Append(log, Request("createSnapshot", v, ok))
            /\ IF ok
               THEN /\ out' = Append(out, Line("Creating snapshot of", v))
                    /\ \E snaps \in Created(snapshots[v]) :
                          snapshots' = [snapshots EXCEPT ![v] = snaps]
               ELSE /\ out' = out \o <<Line("Creating snapshot of", v),
                                       Line("Could not snapshot", v)>>
                    /\ UNCHANGED snapshots
    /\ vidx' = vidx + 1
    /\ UNCHANGED <<before, state, tags, pc, command, instances, idx, last_state, exc>>

\* SnapshotVolume without `except botocore.exceptions.ClientError`
SnapshotVolume_Unhandled ==
    /\ InSnapshot("volumes")
    /\ vidx <= Len(VolumesOf(Current))
    /\ LET v == VolumesOf(Current)[vidx]
           listed == Append(log, Request("listSnapshots", v, TRUE))
       IN  IF has_pending_snapshot(v)
           THEN /\ out' = Append(out, Line("Skipping", v))
                /\ log' = listed
                /\ vidx' = vidx + 1
                /\ UNCHANGED <<snapshots, pc, exc>>
           ELSE \E ok \in BOOLEAN :
                /\ log' = Append(listed, Request("createSnapshot", v, ok))
                /\ out' = Append(out, Line("Creating snapshot of", v))
                /\ IF ok
                   THEN /\ \E snaps \in Created(snapshots[v]) :
                              snapshots' = [snapshots EXCEPT ![v] = snaps]
                        /\ vidx' = vidx + 1
                        /\ UNCHANGED <<pc, exc>>
                   ELSE /\ Raise("ClientError")
                        /\ UNCHANGED <<snapshots, vidx>>
    /\ UNCHANGED <<before, state, tags, command, instances, idx, last_state>>

\* SnapshotVolume asking again for a snapshot that could not be created
SnapshotVolume_Retry ==
    /\ InSnapshot("volumes")
    /\ vidx <= Len(VolumesOf(Current))
    /\ LET v == VolumesOf(Current)[vidx]
           listed == Append(log, Request("listSnapshots", v, TRUE))
       IN  IF has_pending_snapshot(v)
           THEN /\ out' = Append(out, Line("Skipping", v))
                /\ log' = listed
                /\ vidx' = vidx + 1
                /\ UNCHANGED snapshots
           ELSE \E ok \in BOOLEAN :
                /\ log' = Append(listed, Request("createSnapshot", v, ok))
                /\ IF ok
                   THEN /\ out' = Append(out, Line("Creating snapshot of", v))
                        /\ \E snaps \in Created(snapshots[v]) :
                              snapshots' = [snapshots EXCEPT ![v] = snaps]
                        /\ vidx' = vidx + 1
                   ELSE /\ out' = out \o <<Line("Creating snapshot of", v),
                                           Line("Could not snapshot", v)>>
                        /\ UNCHANGED <<snapshots, vidx>>
    /\ UNCHANGED <<before, state, tags, pc, command, instances, idx, last_state, exc>>

\* one pass of the body of `for v in i.volumes.all()`
SnapshotVolume ==
    /\ InSnapshot("volumes")
    /\ vidx <= Len(VolumesOf(Current))
    /\ LET v == VolumesOf(Current)[vidx]
           listed == Append(log, Request("listSnapshots", v, TRUE))
       IN  IF has_pending_snapshot(v)
           THEN /\ out' = Append(out, Line("Skipping", v))
                /\ log' = listed
                /\ UNCHANGED snapshots
           ELSE \E ok \in BOOLEAN :
                /\ log' = Append(listed, Request("createSnapshot", v, ok))
                /\ IF ok
                   THEN /\ out' = Append(out, Line("Creating snapshot of", v))
                        /\ \E snaps \in Created(snapshots[v]) :
                              snapshots' = [snapshots EXCEPT ![v] = snaps]
                   ELSE /\ out' = out \o <<Line("Creating snapshot of", v),
                                           Line("Could not snapshot", v)>>
                        /\ UNCHANGED snapshots
    /\ vidx' = vidx + 1
    /\ UNCHANGED <<before, state, tags, pc, command, instances, idx, last_state, exc>>

\* SnapshotStart restarting every instance that was not 'stopped'
SnapshotStart_UnlessStopped ==
    /\ InSnapshot("volumes")
    /\ vidx > Len(VolumesOf(Current))
    /\ IF last_state # "stopped"
       THEN /\ out' = Append(out, Line("Starting", Current))
            /\ \E ok \in BOOLEAN :
                /\ log' = Append(log, Request("start", Current, ok))
                /\ IF ok
                   THEN /\ state' = [state EXCEPT ![Current] = AfterStart(@)]
                        /\ pc' = "wait_until_running"
                        /\ UNCHANGED exc
                   ELSE /\ Raise("ClientError")
                        /\ UNCHANGED state
            /\ UNCHANGED idx
       ELSE /\ idx' = idx + 1
            /\ pc' = "loop"
            /\ UNCHANGED <<state, exc, log, out>>
    /\ UNCHANGED <<before, tags, snapshots, command, instances, vidx, last_state>>

\* SnapshotStart restarting the instance only if none of its snapshots failed
SnapshotStart_IfAllCreated ==
    /\ InSnapshot("volumes")
    /\ vidx > Len(VolumesOf(Current))
    /\ IF /\ last_state = "running"
          /\ \A k \in 1..Len(log) :
                (log[k].op = "createSnapshot" /\ ~log[k].ok) =>
                    \A n \in 1..Len(VolumesOf(Current)) : VolumesOf(Current)[n] # log[k].id
       THEN /\ out' = Append(out, Line("Starting", Current))
            /\ \E ok \in BOOLEAN :
                /\ log' = Append(log, Request("start", Current, ok))
                /\ IF ok
                   THEN /\ state' = [state EXCEPT ![Current] = AfterStart(@)]
                        /\ pc' = "wait_until_running"
                        /\ UNCHANGED exc
                   ELSE /\ Raise("ClientError")
                        /\ UNCHANGED state
            /\ UNCHANGED idx
       ELSE /\ idx' = idx + 1
            /\ pc' = "loop"
            /\ UNCHANGED <<state, exc, log, out>>
    /\ UNCHANGED <<before, tags, snapshots, command, instances, vidx, last_state>>

\* SnapshotStart going on to the next instance without i.wait_until_running()
SnapshotStart_NoWait ==
    /\ InSnapshot("volumes")
    /\ vidx > Len(VolumesOf(Current))
    /\ IF last_state = "running"
       THEN /\ out' = Append(out, Line("Starting", Current))
            /\ \E ok \in BOOLEAN :
                /\ log' = Append(log, Request("start", Current, ok))
                /\ IF ok
                   THEN /\ state' = [state EXCEPT ![Current] = AfterStart(@)]
                        /\ idx' = idx + 1
                        /\ pc' = "loop"
                        /\ UNCHANGED exc
                   ELSE /\ Raise("ClientError")
                        /\ UNCHANGED <<state, idx>>
       ELSE /\ idx' = idx + 1
            /\ pc' = "loop"
            /\ UNCHANGED <<state, exc, log, out>>
    /\ UNCHANGED <<before, tags, snapshots, command, instances, vidx, last_state>>

\* the volumes are exhausted: `if last_state == 'running'` ... i.start()
SnapshotStart ==
    /\ InSnapshot("volumes")
    /\ vidx > Len(VolumesOf(Current))
    /\ IF last_state = "running"
       THEN /\ out' = Append(out, Line("Starting", Current))
            /\ \E ok \in BOOLEAN :
                /\ log' = Append(log, Request("start", Current, ok))
                /\ IF ok
                   THEN /\ state' = [state EXCEPT ![Current] = AfterStart(@)]
                        /\ pc' = "wait_until_running"
                        /\ UNCHANGED exc
                   ELSE /\ Raise("ClientError")
                        /\ UNCHANGED state
            /\ UNCHANGED idx
       ELSE /\ idx' = idx + 1
            /\ pc' = "loop"
            /\ UNCHANGED <<state, exc, log, out>>
    /\ UNCHANGED <<before, tags, snapshots, command, instances, vidx, last_state>>

\* i.wait_until_running(); then the next instance
SnapshotWaitRunning ==
    /\ InSnapshot("wait_until_running")
    /\ \E ok \in BOOLEAN :
        /\ log' = Append(log, Request("wait_until_running", Current, ok))
        /\ IF ok
           THEN /\ state' = [state EXCEPT ![Current] = "running"]
                /\ idx' = idx + 1
                /\ pc' = "loop"
                /\ UNCHANGED exc
           ELSE /\ Raise("WaiterError")
                /\ UNCHANGED <<state, idx>>
    /\ UNCHANGED <<before, tags, snapshots, command, instances, vidx, last_state, out>>

\* what a listing has become once its pending snapshots have completed
Completed(snaps) ==
    [k \in 1..Len(snaps) |-> IF snaps[k] = "pending" THEN "completed" ELSE snaps[k]]

\* the same command line is run a second time after the first run returned;
\* in between the pending snapshots may have completed
Rerun ==
    /\ InSnapshot("done")
    /\ \A k \in 2..Len(log) : log[k].op # "listInstances"
    /\ \E settled \in BOOLEAN :
          snapshots' = [v \in VolumeIds |->
                          IF settled THEN Completed(snapshots[v]) ELSE snapshots[v]]
    /\ instances' = filter_instances(command.project, command.instance)
    /\ log' = Append(log, Request("listInstances", None, TRUE))
    /\ idx' = 1
    /\ pc' = "loop"
    /\ before' = [state |-> state, snapshots |-> snapshots']
    /\ UNCHANGED <<state, tags, command, vidx, last_state, exc, out>>

(***************************************************************************)
(* stop_instances, start_instances, reboot_instances: the loop.            *)
(***************************************************************************)
InBulk == command.name \in {"stop", "start", "reboot"} /\ pc = "loop"

BulkText(name) ==
    CASE name = "stop" -> "Stopping"
      [] name = "start" -> "Starting"
      [] name = "reboot" -> "Rebooting"

BulkFailText(name) ==
    CASE name = "stop" -> "Could not stop"
      [] name = "start" -> "Could not start"
      [] name = "reboot" -> "Could not reboot"

AfterRequest(name, s) ==
    CASE name = "stop" -> AfterStop(s)
      [] name = "start" -> AfterStart(s)
      [] name = "reboot" -> s

\* BulkRequest without `except botocore.exceptions.ClientError`
BulkRequest_Unhandled ==
    /\ InBulk
    /\ idx <= Len(instances)
    /\ out' = Append(out, Line(BulkText(command.name), Current))
    /\ \E ok \in BOOLEAN :
        /\ log' = Append(log, Request(command.name, Current, ok))
        /\ IF ok
           THEN /\ state' = [state EXCEPT ![Current] = AfterRequest(command.name, @)]
                /\ idx' = idx + 1
                /\ UNCHANGED <<pc, exc>>
           ELSE /\ Raise("ClientError")
                /\ UNCHANGED <<state, idx>>
    /\ UNCHANGED <<before, tags, snapshots, command, instances, vidx, last_state>>

\* one pass of `for i in instances`: print, request, except ClientError: continue
BulkRequest ==
    /\ InBulk
    /\ idx <= Len(instances)
    /\ \E ok \in BOOLEAN :
        /\ log' = Append(log, Request(command.name, Current, ok))
        /\ IF ok
           THEN /\ state' = [state EXCEPT ![Current] = AfterRequest(command.name, @)]
                /\ out' = Append(out, Line(BulkText(command.name), Current))
           ELSE /\ UNCHANGED state
                /\ out' = out \o <<Line(BulkText(command.name), Current),
                                   Line(BulkFailText(command.name), Current)>>
    /\ idx' = idx + 1
    /\ UNCHANGED <<before, tags, snapshots, pc, command, instances, vidx, last_state, exc>>

\* the loop is exhausted: the handler returns
BulkDone ==
    /\ InBulk
    /\ idx > Len(instances)
    /\ pc' = "done"
    /\ UNCHANGED <<before, remote, command, instances, idx, vidx, last_state, exc, log, out>>

(***************************************************************************)
(* list_instances, list_volumes, list_snapshots.  They have no gate.       *)
(***************************************************************************)
ListingCommands == {"list_instances", "list_volumes", "list_snapshots"}

\* the command lines the listings are explored with
ListProjectArgs == {None, "p1"}

ListInstanceArgs == {None, InstanceId(1)}

\* EnterList with the gate of the mutating commands (force is never given)
EnterList_Gated(name, project, instance, list_all) ==
    /\ pc = "idle"
    /\ command' = [name |-> name, project |-> project, instance |-> instance,
                   list_all |-> list_all]
    /\ IF GateRaises(project, FALSE)
       THEN /\ exc' = "Exception"
            /\ pc' = "crashed"
            /\ UNCHANGED <<instances, idx, log>>
       ELSE /\ instances' = filter_instances(project, instance)
            /\ log' = Append(log, Request("listInstances", None, TRUE))
            /\ idx' = 1
            /\ pc' = "loop"
            /\ exc' = None
    /\ before' = [state |-> state, snapshots |-> snapshots]
    /\ UNCHANGED <<remote, vidx, last_state, out>>

\* instances = filter_instances(project, instance)
EnterList(name, project, instance, list_all) ==
    /\ pc = "idle"
    /\ command' = [name |-> name, project |-> project, instance |-> instance,
                   list_all |-> list_all]
    /\ instances' = filter_instances(project, instance)
    /\ log' = Append(log, Request("listInstances", None, TRUE))
    /\ idx' = 1
    /\ pc' = "loop"
    /\ before' = [state |-> state, snapshots |-> snapshots]
    /\ UNCHANGED <<remote, vidx, last_state, exc, out>>

list_instances ==
    \E project \in ListProjectArgs, instance \in ListInstanceArgs :
        EnterList("list_instances", project, instance, FALSE)

list_volumes ==
    \E project \in ListProjectArgs, instance \in ListInstanceArgs :
        EnterList("list_volumes", project, instance, FALSE)

list_snapshots ==
    \E project \in ListProjectArgs, instance \in ListInstanceArgs, list_all \in BOOLEAN :
        EnterList("list_snapshots", project, instance, list_all)

InList(name, at) == command.name = name /\ pc = at

\* the rows; of a row only the fields the model has are kept
InstanceRow(i) ==
    [row |-> "instance", id |-> i, state |-> state[i],
     project |-> IF tags[i] = None THEN "<no project>" ELSE tags[i]]

VolumeRow(v, i) == [row |-> "volume", id |-> v, instance |-> i]

\* a snapshot is named by its place n in the listing of its volume
SnapshotRow(n, v, i) ==
    [row |-> "snapshot", n |-> n, volume |-> v, instance |-> i,
     state |-> snapshots[v][n]]

\* one pass of `for i in instances` of list_instances
ListInstance ==
    /\ InList("list_instances", "loop")
    /\ idx <= Len(instances)
    /\ out' = Append(out, InstanceRow(Current))
    /\ idx' = idx + 1
    /\ UNCHANGED <<before, remote, pc, command, instances, vidx, last_state, exc, log>>

\* one pass of `for i in instances` of list_volumes: a row per volume
ListVolumes ==
    /\ InList("list_volumes", "loop")
    /\ idx <= Len(instances)
    /\ log' = Append(log, Request("listVolumes", Current, TRUE))
    /\ out' = out \o [k \in 1..Len(VolumesOf(Current)) |->
                        VolumeRow(VolumesOf(Current)[k], Current)]
    /\ idx' = idx + 1
    /\ UNCHANGED <<before, remote, pc, command, instances, vidx, last_state, exc>>

\* RowsFrom without the break: what --all prints, whatever the option
RECURSIVE RowsFrom_All(_, _, _, _)
RowsFrom_All(n, v, i, list_all) ==
    IF n > Len(snapshots[v]) THEN <<>>
    ELSE <<SnapshotRow(n, v, i)>> \o RowsFrom_All(n + 1, v, i, list_all)

\* `for s in v.snapshots.all()`: print the row; break after a 'completed'
\* one unless --all was given.  The rows from place n of the listing on.
RECURSIVE RowsFrom(_, _, _, _)
RowsFrom(n, v, i, list_all) ==
    IF n > Len(snapshots[v]) THEN <<>>
    ELSE IF snapshots[v][n] = "completed" /\ ~list_all
         THEN <<SnapshotRow(n, v, i)>>
         ELSE <<SnapshotRow(n, v, i)>> \o RowsFrom(n + 1, v, i, list_all)

\* list_snapshots: `for i in instances` reaches i and asks for its volumes
ListSnapshotsInstance ==
    /\ InList("list_snapshots", "loop")
    /\ idx <= Len(instances)
    /\ log' = Append(log, Request("listVolumes", Current, TRUE))
    /\ IF VolumesOf(Current) = <<>>
       THEN /\ idx' = idx + 1
            /\ UNCHANGED <<pc, vidx>>
       ELSE /\ vidx' = 1
            /\ pc' = "volumes"
            /\ UNCHANGED idx
    /\ UNCHANGED <<before, remote, command, instances, last_state, exc, out>>

\* list_snapshots: one pass of `for v in i.volumes.all()`
ListSnapshotsVolume ==
    /\ InList("list_snapshots", "volumes")
    /\ LET v == VolumesOf(Current)[vidx]
       IN  /\ log' = Append(log, Request("listSnapshots", v, TRUE))
           /\ out' = out \o RowsFrom(1, v, Current, command.list_all)
    /\ IF vidx < Len(VolumesOf(Current))
       THEN /\ vidx' = vidx + 1
            /\ UNCHANGED <<pc, idx>>
       ELSE /\ idx' = idx + 1
            /\ pc' = "loop"
            /\ UNCHANGED vidx
    /\ UNCHANGED <<before, remote, command, instances, last_state, exc>>

\* the loop over the instances is exhausted: return
ListDone ==
    /\ command.name \in ListingCommands
    /\ pc = "loop"
    /\ idx > Len(instances)
    /\ pc' = "done"
    /\ UNCHANGED <<before, remote, command, instances, idx, vidx, last_state, exc, log, out>>

(***************************************************************************)
(* Specifications.                                                         *)
(***************************************************************************)
Next ==
    \/ create_snapshots
    \/ stop_instances
    \/ start_instances
    \/ reboot_instances
    \/ SnapshotDone
    \/ SnapshotStop
    \/ SnapshotWaitStopped
    \/ SnapshotVolume
    \/ SnapshotStart
    \/ SnapshotWaitRunning
    \/ BulkRequest
    \/ BulkDone

Spec == Init /\ [][Next]_vars

NextSnapshot ==
    \/ create_snapshots_p1
    \/ SnapshotDone
    \/ SnapshotStop
    \/ SnapshotWaitStopped
    \/ SnapshotVolume
    \/ SnapshotStart
    \/ SnapshotWaitRunning

SpecSnapshot == InitSnapshot /\ [][NextSnapshot]_vars

SpecGuard == InitGuard /\ [][NextSnapshot]_vars

NextRerun ==
    \/ NextSnapshot
    \/ Rerun

SpecRerun == InitRerun /\ [][NextRerun]_vars

NextList ==
    \/ list_instances
    \/ list_volumes
    \/ list_snapshots
    \/ ListInstance
    \/ ListVolumes
    \/ ListSnapshotsInstance
    \/ ListSnapshotsVolume
    \/ ListDone

SpecList == InitList /\ [][NextList]_vars

(***************************************************************************)
(* Properties.                                                             *)
(***************************************************************************)
Mutating == command.name \in MutatingCommands

Snapshotting == command.name = "snapshot"

\* the positions of the log that hold a request `op` on `id`
At(op, id) == {k \in 1..Len(log) : log[k].op = op /\ log[k].id = id}

Ops(ops) == {k \in 1..Len(log) : log[k].op \in ops}

Failed(ops) == {k \in Ops(ops) : ~log[k].ok}

Printed(text, id) == \E k \in 1..Len(out) : out[k] = Line(text, id)

\* C1: a mutating subcommand is rejected with the configuration error exactly
\* when project is unset and instance is unset and force is false; with
\* instance set, project unset and force false it proceeds to the selection.
C1_GateCountsInstance ==
    (Mutating /\ pc # "idle") =>
        ((exc = "Exception") <=>
            (/\ ~Truthy(command.project)
             /\ ~Truthy(command.instance)
             /\ ~command.force))

\* C2: when the gate rejects an invocation, the error is raised before any
\* request to the inventory: the log of requests is empty, nothing has been
\* printed and the remote state is left as it was.
C2_RejectedBeforeAnyRequest ==
    [][(exc' = "Exception") =>
          (/\ log' = <<>>
           /\ out' = <<>>
           /\ remote' = remote
           /\ state' = before'.state
           /\ snapshots' = before'.snapshots)]_vars

C2_Witness ==
    /\ command.name = "snapshot"
    /\ exc = "Exception"
    /\ ~Truthy(command.project) /\ ~Truthy(command.instance) /\ ~command.force

\* the instance a volume is attached to, and the place of x in a sequence
Owners ==
    [v \in VolumeIds |->
        CHOOSE i \in InstanceIds : \E m \in 1..Len(VolumesOf(i)) : VolumesOf(i)[m] = v]

OwnerOf(v) == Owners[v]

IndexIn(seq, x) == CHOOSE n \in 1..Len(seq) : seq[n] = x

\* the loop of create_snapshots is at a volume
AtVolume == InSnapshot("volumes") /\ vidx <= Len(VolumesOf(Current))

\* C3: a volume for which has_pending_snapshot returned true gets no
\* createSnapshot request in this invocation; it is reported as skipped and
\* the loop goes on to the next volume.
C3_PendingVolumeSkipped ==
    /\ [](Snapshotting =>
            \A v \in VolumeIds : Printed("Skipping", v) => At("createSnapshot", v) = {})
    /\ [][(AtVolume /\ has_pending_snapshot(VolumesOf(Current)[vidx])) =>
            LET v == VolumesOf(Current)[vidx]
            IN  /\ \A k \in 1..Len(log') :
                      ~(log'[k].op = "createSnapshot" /\ log'[k].id = v)
                /\ out' = Append(out, Line("Skipping", v))
                /\ snapshots' = snapshots
                /\ pc' = "volumes"
                /\ vidx' = vidx + 1
                /\ idx' = idx
                /\ exc' = None]_vars

C3_Witness ==
    /\ Snapshotting
    /\ pc = "done"
    /\ \E v \in VolumeIds :
          /\ Printed("Skipping", v)
          /\ \E k \in At("listSnapshots", v), n \in Ops({"createSnapshot"}) : k < n

\* C4: an instance whose runtime state recorded before the stop request was
\* not 'running' never receives a start request in the snapshot orchestration.
C4_NoStartUnlessWasRunning ==
    Snapshotting =>
        /\ pc \in {"wait_until_stopped", "volumes", "wait_until_running"} =>
              last_state = before.state[Current]
        /\ \A i \in InstanceIds : before.state[i] # "running" => At("start", i) = {}

C4_Witness ==
    /\ Snapshotting
    /\ pc = "done"
    /\ \E i, j \in InstanceIds :
          /\ before.state[i] = "pending"
          /\ At("wait_until_stopped", i) # {}
          /\ At("start", j) # {}

\* what create_snapshots requests next once it has handled volume v
NextAfterVolume(v) ==
    LET i == OwnerOf(v)
        vols == VolumesOf(i)
        m == IndexIn(vols, v)
        j == IndexIn(instances, i)
    IN  IF m < Len(vols) THEN <<"listSnapshots", vols[m + 1]>>
        ELSE IF before.state[i] = "running" THEN <<"start", i>>
        ELSE IF j < Len(instances) THEN <<"stop", instances[j + 1]>>
        ELSE <<"return", None>>

\* C5: a createSnapshot that fails with a client error is reported and the
\* orchestration goes on as after a success: the guard of the next volume of
\* the instance, else the restart decision, else the next selected instance.
C5_SnapshotFailureIsolated ==
    Snapshotting =>
        \A k \in Failed({"createSnapshot"}) :
            /\ Printed("Could not snapshot", log[k].id)
            /\ IF k < Len(log)
               THEN <<log[k + 1].op, log[k + 1].id>> = NextAfterVolume(log[k].id)
               ELSE /\ exc = None
                    /\ pc # "crashed"
                    /\ pc = "done" => NextAfterVolume(log[k].id) = <<"return", None>>

C5_Witness ==
    /\ Snapshotting
    /\ pc = "done"
    /\ \E k \in Failed({"createSnapshot"}) :
          \E n \in Ops({"createSnapshot"}), s \in Ops({"stop"}) :
              /\ k < n /\ n < s
              /\ OwnerOf(log[n].id) = OwnerOf(log[k].id)

\* C6: per instance the requests come in the order stop, wait-until-stopped,
\* the guard checks and createSnapshot requests of its volumes, then (only
\* if it was running) start and wait-until-running.
\* The log starts empty and only grows: every place of it is checked in the
\* step that appends it, and once more in the step that appends the next.
PipelineAt(k) ==
    LET op == log[k].op
        id == log[k].id
    IN  /\ op \in {"listSnapshots", "createSnapshot"} =>
              /\ \E w \in 2..(k - 1) :
                    /\ log[w] = Request("wait_until_stopped", OwnerOf(id), TRUE)
                    /\ log[w - 1] = Request("stop", OwnerOf(id), TRUE)
              /\ \A r \in 1..(k - 1) :
                    ~(log[r].op = "start" /\ log[r].id = OwnerOf(id))
        /\ op = "wait_until_stopped" =>
              k > 1 /\ log[k - 1] = Request("stop", id, TRUE)
        /\ op = "start" =>
              /\ before.state[id] = "running"
              /\ \E w \in 1..(k - 1) :
                    log[w] = Request("wait_until_stopped", id, TRUE)
              /\ \A m \in 1..Len(VolumesOf(id)) :
                    \E j \in 1..(k - 1) :
                        log[j] = Request("listSnapshots", VolumesOf(id)[m], TRUE)
              /\ (log[k].ok /\ k < Len(log)) =>
                    log[k + 1].op = "wait_until_running" /\ log[k + 1].id = id
        /\ op = "wait_until_running" =>
              k > 1 /\ log[k - 1] = Request("start", id, TRUE)

C6_PipelineOrder ==
    [][Snapshotting' =>
        \A k \in 1..Len(log') : k >= Len(log) => PipelineAt(k)']_vars

C6_Witness ==
    /\ Snapshotting
    /\ pc = "done"
    /\ \E i \in InstanceIds :
          \E s \in At("stop", i), c \in Ops({"createSnapshot"}), r \in At("start", i),
             w \in At("wait_until_running", i) :
              s < c /\ c < r /\ r < w /\ OwnerOf(log[c].id) = i /\ log[w].ok

\* C7: a wait for a state transition that times out does not crash the run.
C7_WaitTimeoutIsolated ==
    Snapshotting =>
        (Failed({"wait_until_stopped", "wait_until_running"}) # {} =>
            exc = None /\ pc # "crashed")

\* C8: a client error raised by the stop or the start request of an instance
\* in the snapshot orchestration does not abort the run.
C8_StopStartErrorIsolated ==
    Snapshotting =>
        \A k \in Failed({"stop", "start"}) : exc # "ClientError" /\ pc # "crashed"

Bulk == command.name \in {"stop", "start", "reboot"}

Selected == {instances[k] : k \in 1..Len(instances)}

\* C9: a bulk stop, start or reboot issues exactly one request per selected
\* instance, in selection order and without waiting; a client error on one
\* instance is reported with its id and the later instances still get theirs.
C9_BulkOneRequestEach ==
    (Bulk /\ pc # "idle" /\ exc # "Exception") =>
        /\ pc \in {"loop", "done"}
        /\ exc = None
        /\ Cardinality(Selected) = Len(instances)
        /\ Len(log) = idx
        /\ idx <= Len(instances) + 1
        /\ pc = "done" => idx = Len(instances) + 1
        /\ \A k \in 1..(idx - 1) :
              /\ log[k + 1].op = command.name
              /\ log[k + 1].id = instances[k]
              /\ ~log[k + 1].ok <=> Printed(BulkFailText(command.name), instances[k])
        /\ Ops({"wait_until_stopped", "wait_until_running"}) = {}

C9_Witness ==
    /\ Bulk
    /\ pc = "done"
    /\ Len(instances) >= 2
    /\ ~log[2].ok
    /\ log[3].ok

\* C10: filter_instances selects by instance id when one is given, whatever
\* the project; else by the tag Project when one is given; else the whole
\* inventory.  It sends no mutating request.
C10_SelectionReference ==
    (Mutating /\ pc # "idle" /\ exc # "Exception") =>
        /\ Cardinality(Selected) = Len(instances)
        /\ IF Truthy(command.instance)
           THEN /\ Len(instances) <= 1
                /\ Selected = {i \in InstanceIds : i = command.instance}
           ELSE IF Truthy(command.project)
           THEN Selected = {i \in InstanceIds : tags[i] = command.project}
           ELSE Selected = InstanceIds
        /\ log[1] = Request("listInstances", None, TRUE)
        /\ (pc = "loop" /\ idx = 1) =>
              /\ Len(log) = 1
              /\ state = before.state
              /\ snapshots = before.snapshots

C10_Witness ==
    /\ Mutating
    /\ pc = "loop"
    /\ command.instance \in InstanceIds
    /\ command.project = "p1"
    /\ tags[command.instance] # "p1"
    /\ \E i \in InstanceIds : tags[i] = "p1"
    /\ instances = <<command.instance>>

\* C11: has_pending_snapshot is false for a volume without snapshots, and
\* otherwise true exactly when the first snapshot of the listing is
\* 'pending': a first snapshot that is 'completed' or 'error' makes it false
\* even when an older one is pending.  Seen through the step that applies it:
\* the volume is skipped exactly in that case, else a snapshot is requested.
C11_GuardReadsFirstSnapshot ==
    [][AtVolume =>
        LET v == VolumesOf(Current)[vidx]
            listing == snapshots[v]
            first_pending == Len(listing) > 0 /\ Head(listing) = "pending"
        IN  /\ has_pending_snapshot(v) <=> first_pending
            /\ first_pending <=> (out' = Append(out, Line("Skipping", v)))
            /\ first_pending <=> (Len(log') = Len(log) + 1)
            /\ ~first_pending =>
                  /\ Len(log') = Len(log) + 2
                  /\ log'[Len(log')].op = "createSnapshot"
                  /\ log'[Len(log')].id = v]_vars

C11_Witness ==
    /\ Snapshotting
    /\ \E v \in VolumeIds :
          /\ Len(before.snapshots[v]) >= 2
          /\ before.snapshots[v][1] \in {"completed", "error"}
          /\ before.snapshots[v][2] = "pending"
          /\ At("createSnapshot", v) # {}


ListingSnapshots == command.name = "list_snapshots"

\* the rows printed for the snapshots of volume v, in the order printed
RowsOf(v) == SelectSeq(out, LAMBDA r : r.row = "snapshot" /\ r.volume = v)

\* C12: in default mode `snapshots list` prints at most one snapshot row per
\* volume, the most recent one, i.e. the first the service lists.
C12_AtMostOneRowPerVolume ==
    (ListingSnapshots /\ ~command.list_all) =>
        \A v \in VolumeIds :
            /\ Len(RowsOf(v)) <= 1
            /\ RowsOf(v) # <<>> => RowsOf(v)[1].n = 1

\* how many snapshots of a listing are shown: all of them with --all or when
\* none is completed, else those up to and including the first completed one
Shown(listing, list_all) ==
    LET completed == {k \in 1..Len(listing) : listing[k] = "completed"}
    IN  IF list_all \/ completed = {} THEN Len(listing)
        ELSE CHOOSE k \in completed : \A j \in completed : k <= j

Lines(text, id) == {k \in 1..Len(out) : out[k] = Line(text, id)}

\* the lines about instance i that say anything but that it is being stopped
\* or started: a report that i was left stopped would be one of them
OtherLines(i) ==
    {k \in 1..Len(out) : out[k].id = i /\ out[k].text \notin {"Stopping", "Starting"}}

\* C14: the report of a completed create_snapshots has, for every selected
\* instance, one 'stopped' line and exactly one of 'restarted' and
\* 'left stopped' (an instance that is not restarted is reported as left
\* stopped), and for every volume of it exactly one of 'skipped', 'created'
\* and 'failed' (a failed volume is not also reported as created).
C14_ReportPerInstanceAndVolume ==
    (Snapshotting /\ pc = "done") =>
        \A i \in Selected :
            /\ Cardinality(Lines("Stopping", i)) = 1
            /\ Cardinality(Lines("Starting", i)) + Cardinality(OtherLines(i)) = 1
            /\ \A m \in 1..Len(VolumesOf(i)) :
                  LET v == VolumesOf(i)[m]
                  IN  Cardinality(Lines("Skipping", v))
                          + Cardinality(Lines("Creating snapshot of", v))
                          + Cardinality(Lines("Could not snapshot", v)) = 1


\* the places of the log that hold a request about a volume of instance i
AtVolumesOf(i) ==
    {k \in 1..Len(log) :
        /\ log[k].op \in {"listVolumes", "listSnapshots", "createSnapshot"}
        /\ IF log[k].op = "listVolumes" THEN log[k].id = i ELSE OwnerOf(log[k].id) = i}

\* C15: when create_snapshots completes (no stop or start error, no wait that
\* timed out), every selected instance that was running before the run has
\* exactly one start request, issued after its last volume was handled and
\* whatever the snapshot outcomes were, and is running again; the other
\* selected instances have no start request and are left stopped.
C15_RunningInstancesRestarted ==
    (Snapshotting /\ pc = "done") =>
        \A i \in Selected :
            IF before.state[i] = "running"
            THEN /\ Cardinality(At("start", i)) = 1
                 /\ \A k \in At("start", i) :
                       /\ log[k].ok
                       /\ \A j \in AtVolumesOf(i) : j < k
                 /\ \A m \in 1..Len(VolumesOf(i)) : At("listSnapshots", VolumesOf(i)[m]) # {}
                 /\ state[i] = "running"
            ELSE /\ At("start", i) = {}
                 /\ state[i] = "stopped"

\* a run completes in which a snapshot of a previously running instance
\* failed, and the instance is running again
C15_Witness ==
    /\ Snapshotting
    /\ pc = "done"
    /\ \E i \in Selected, k \in Failed({"createSnapshot"}) :
          /\ before.state[i] = "running"
          /\ OwnerOf(log[k].id) = i
          /\ state[i] = "running"
    /\ \E i \in Selected : before.state[i] # "running" /\ state[i] = "stopped"


Ended == pc \in {"done", "crashed"}

\* a bound on the steps an instance takes: stop, wait, a step per volume, the
\* step after the last volume, wait
StepsPerInstance == NumVolumes + 4

\* how far create_snapshots is into the instance it is at
Stage ==
    CASE pc = "loop" -> 0
      [] pc = "wait_until_stopped" -> 1
      [] pc = "volumes" -> 1 + vidx
      [] pc = "wait_until_running" -> NumVolumes + 3
      [] OTHER -> 0

\* a bound on the steps create_snapshots has left
Rank ==
    IF Ended THEN 0
    ELSE (Len(instances) + 1 - idx) * StepsPerInstance + 1 - Stage

\* C16: create_snapshots terminates after processing each selected instance
\* once and never retries: every step before the end is followed by another
\* and brings the end nearer, and an invocation issues at most one stop and
\* one start per instance and at most one createSnapshot per volume.
C16_TerminatesWithoutRetry ==
    /\ [](Snapshotting =>
            /\ Rank >= 0
            /\ ~Ended => ENABLED NextSnapshot
            /\ pc = "done" => \A i \in Selected : Cardinality(At("stop", i)) = 1)
    /\ [][Snapshotting =>
            /\ Rank' < Rank
            /\ \A k \in (Len(log) + 1)..Len(log') :
                  log'[k].op \in {"stop", "start", "createSnapshot"} =>
                      \A j \in 1..Len(log) :
                          ~(log[j].op = log'[k].op /\ log[j].id = log'[k].id)]_vars

\* a run over two instances completes although a request for a snapshot
\* failed, and the failed request was the only one for its volume
C16_Witness ==
    /\ Snapshotting
    /\ pc = "done"
    /\ Len(instances) >= 2
    /\ \E k \in Failed({"createSnapshot"}) : At("createSnapshot", log[k].id) = {k}


\* the instance the request at place k of the log is about, and its place in
\* the selection (k >= 2: the first request lists the instances)
InstanceAt(k) ==
    IF log[k].op \in {"listSnapshots", "createSnapshot"} THEN OwnerOf(log[k].id)
    ELSE log[k].id

PlaceAt(k) == IndexIn(instances, InstanceAt(k))

\* C17: create_snapshots handles the selected instances strictly one after
\* the other, in selection order: the requests about one instance are not
\* interleaved with those of another, and the next instance's stop is issued
\* only after the previous one's volumes are handled and, if it is restarted,
\* after the wait for it to run has completed.
\* Every request a step appends to the log is checked against the one
\* before it.
SequentialAt(k) ==
    /\ PlaceAt(k) <= PlaceAt(k + 1)
    /\ PlaceAt(k) < PlaceAt(k + 1) =>
          /\ PlaceAt(k + 1) = PlaceAt(k) + 1
          /\ log[k + 1].op = "stop"
          /\ \A n \in 1..Len(VolumesOf(InstanceAt(k))) :
                \E j \in 2..k :
                    log[j] = Request("listSnapshots", VolumesOf(InstanceAt(k))[n], TRUE)
          /\ IF before.state[InstanceAt(k)] = "running"
             THEN /\ log[k] = Request("wait_until_running", InstanceAt(k), TRUE)
                  /\ log[k - 1] = Request("start", InstanceAt(k), TRUE)
             ELSE log[k].op \in {"listVolumes", "listSnapshots", "createSnapshot"}

C17_StrictlySequential ==
    [][Snapshotting =>
        \A k \in 2..(Len(log') - 1) : k >= Len(log) => SequentialAt(k)']_vars

\* the second instance is stopped after the first, which has a volume, was
\* restarted
C17_Witness ==
    /\ Snapshotting
    /\ Len(instances) >= 2
    /\ VolumesOf(instances[1]) # <<>>
    /\ At("wait_until_running", instances[1]) # {}
    /\ At("stop", instances[2]) # {}


\* the place of the log where the second invocation begins (0 if there is none)
SecondRun ==
    LET again == {k \in 2..Len(log) : log[k].op = "listInstances"}
    IN  IF again = {} THEN 0 ELSE CHOOSE k \in again : TRUE

\* the volumes the first invocation created a snapshot of
CreatedFirst ==
    {v \in VolumeIds :
        \E k \in 1..SecondRun : log[k] = Request("createSnapshot", v, TRUE)}

\* C18: when create_snapshots is run twice and the snapshots of the first run
\* are still pending and listed first by the service, the second run issues
\* no createSnapshot for those volumes: it skips them and leaves their
\* snapshots as they are.
C18_RerunCreatesNothingNew ==
    /\ [](pc = "done" =>
            \A v \in VolumeIds :
                (/\ before.snapshots[v] # <<>>
                 /\ Head(before.snapshots[v]) = "pending"
                 /\ v \in CreatedFirst) =>
                    /\ \A k \in SecondRun..Len(log) :
                          ~(log[k].op = "createSnapshot" /\ log[k].id = v)
                    /\ snapshots[v] = before.snapshots[v])
    /\ [][AtVolume =>
            LET v == VolumesOf(Current)[vidx]
            IN  (/\ snapshots[v] # <<>>
                 /\ Head(snapshots[v]) = "pending"
                 /\ v \in CreatedFirst) =>
                    /\ log' = Append(log, Request("listSnapshots", v, TRUE))
                    /\ out' = Append(out, Line("Skipping", v))
                    /\ UNCHANGED snapshots]_vars

\* the second run has completed and has skipped a volume whose first-run
\* snapshot is listed before an older one
C18_Witness ==
    /\ SecondRun > 0
    /\ pc = "done"
    /\ \E v \in CreatedFirst :
          /\ Len(snapshots[v]) >= 2
          /\ Head(snapshots[v]) = "pending"
          /\ \E k \in SecondRun..Len(log) : log[k] = Request("listSnapshots", v, TRUE)


\* the instances the filter of the command line matches
Chosen ==
    IF Truthy(command.instance) THEN {i \in InstanceIds : i = command.instance}
    ELSE IF Truthy(command.project) THEN {i \in InstanceIds : tags[i] = command.project}
    ELSE InstanceIds

\* C19: every request a mutating command sends after the selection (stop,
\* start, reboot, the waits, the listings of volumes and snapshots,
\* createSnapshot) is about an instance filter_instances selected or a volume
\* of one; the instances outside the selection keep their state and their
\* volumes keep their snapshots.
C19_MutationsConfinedToSelection ==
    [][(Mutating /\ pc # "idle") =>
        /\ \A k \in (Len(log) + 1)..Len(log') :
              IF log'[k].op \in {"listSnapshots", "createSnapshot"}
              THEN OwnerOf(log'[k].id) \in Chosen
              ELSE log'[k].id \in Chosen
        /\ \A i \in InstanceIds \ Chosen : state'[i] = state[i]
        /\ \A v \in VolumeIds : OwnerOf(v) \notin Chosen => snapshots'[v] = snapshots[v]
        /\ tags' = tags]_vars

\* a command has changed a selected instance, and there is an instance that
\* it did not select
C19_Witness ==
    /\ Mutating
    /\ pc = "done"
    /\ Chosen # InstanceIds
    /\ \E i \in Chosen : state[i] # before.state[i]
    /\ \A i \in InstanceIds \ Chosen : state[i] = before.state[i]


Listing == command.name \in ListingCommands

\* C20: the listing commands only read: they send no mutating request and
\* leave instances, tags and snapshots as they are; and they are not subject
\* to the gate: without --project and without --force they still run and
\* print their rows.
C20_ListingsReadOnly ==
    /\ [](Listing =>
            /\ exc = None
            /\ pc \in {"loop", "volumes", "done"}
            /\ log[1] = Request("listInstances", None, TRUE)
            /\ state = before.state
            /\ snapshots = before.snapshots
            /\ (pc = "done" /\ command.name = "list_instances") =>
                  /\ Len(out) = Len(instances)
                  /\ \A n \in 1..Len(instances) : out[n] = InstanceRow(instances[n])
            /\ (pc = "done" /\ command.name = "list_volumes") =>
                  \A n \in 1..Len(instances) :
                      \A j \in 1..Len(VolumesOf(instances[n])) :
                          \E k \in 1..Len(out) :
                              out[k] = VolumeRow(VolumesOf(instances[n])[j], instances[n]))
    /\ [][/\ remote' = remote
          /\ \A k \in (Len(log) + 1)..Len(log') :
                /\ log'[k].op \in {"listInstances", "listVolumes", "listSnapshots"}
                /\ log'[k].ok]_vars

\* a listing ran to its end on a command line the gate of the mutating
\* commands rejects, and printed rows
C20_Witness ==
    /\ Listing
    /\ GateRaises(command.project, FALSE)
    /\ ~Truthy(command.instance)
    /\ pc = "done"
    /\ Len(instances) = NumInstances
    /\ Len(out) >= NumInstances

====
